---- MODULE Spec2Model ----
(***************************************************************************)
(* Funny JSON Explorer: the builder (fje.py), the node model, the          *)
(* iterators and the two drawing styles (components.py).                   *)
(*                                                                         *)
(* Strings are sequences of one-character tokens, so that len(), +, * and  *)
(* str.replace are computed as Python computes them.  The box-drawing      *)
(* characters are written with ASCII tokens:                               *)
(*   "V"  = U+2502 (vertical)        "H"  = U+2500 (horizontal)            *)
(*   "UR" = U+2514 (up and right)    "VR" = U+251C (vertical and right)    *)
(*   "UH" = U+2534 (up and horiz.)   "DR" = U+250C (down and right)        *)
(*   "DL" = U+2510 (down and left)   "UL" = U+2518 (up and left)           *)
(*   "VL" = U+2524 (vertical and left)                                     *)
(* each of which is one character of a Python str.                         *)
(***************************************************************************)
EXTENDS Integers, Sequences, FiniteSets, TLC

VARIABLES data, style, icon_family, pc, root, heap, output, it, results

vars == <<data, style, icon_family, pc, root, heap, output, it, results>>

(* ------------------------------ bounds --------------------------------- *)

\* Largest number of JSON values (the top-level value included) in the input.
MaxNodes == 5

\* Largest number of next() calls made on an iterator after it is exhausted.
MaxExtraCalls == 2

(* ------------------------- decoded JSON values ------------------------- *)

JNull == [type |-> "null", num |-> 0, items |-> <<>>]

JInt(n) == [type |-> "int", num |-> n, items |-> <<>>]

JDict(items) == [type |-> "dict", num |-> 0, items |-> items]

Scalars == {JNull, JInt(30)}

Keys == {<<"a">>, <<"b", "c">>}

RECURSIVE ValuesOfSize(_)
RECURSIVE ItemsOfSize(_, _)

\* The decoded JSON values made of exactly n values.
ValuesOfSize(n) ==
    IF n = 1 THEN Scalars \cup {JDict(<<>>)}
    ELSE {JDict(items) : items \in ItemsOfSize(n - 1, {})}

\* The item lists of a mapping (distinct keys, in iteration order) whose
\* values are made of exactly n values in total, n >= 1.
ItemsOfSize(n, used) ==
    UNION {UNION {
        {<<[key |-> k, value |-> v]>> \o rest :
            v \in ValuesOfSize(s),
            rest \in (IF s = n THEN {<<>>} ELSE ItemsOfSize(n - s, used \cup {k}))}
        : s \in 1..n} : k \in Keys \ used}

JsonValues == UNION {ValuesOfSize(n) : n \in 1..MaxNodes}

Styles == {"tree", "rectangle"}

IconFamilies == {[container_icon |-> <<>>, leaf_icon |-> <<>>],
                 [container_icon |-> <<"#">>, leaf_icon |-> <<"*", "*">>]}

(* ------------------------------ strings -------------------------------- *)

DigitChar(d) == <<"0", "1", "2", "3", "4", "5", "6", "7", "8", "9">>[d + 1]

RECURSIVE IntToStr(_)
IntToStr(n) ==
    IF n < 10 THEN <<DigitChar(n)>>
    ELSE IntToStr(n \div 10) \o <<DigitChar(n % 10)>>

\* str(data) for a scalar that is not None
Str(v) == IntToStr(v.num)

RECURSIVE Repeat(_, _)
\* c * n; a count that is not positive gives the empty string
Repeat(c, n) == IF n <= 0 THEN <<>> ELSE <<c>> \o Repeat(c, n - 1)

StartsWith(s, p) == Len(s) >= Len(p) /\ SubSeq(s, 1, Len(p)) = p

EndsWith(s, p) == Len(s) >= Len(p) /\ SubSeq(s, Len(s) - Len(p) + 1, Len(s)) = p

RECURSIVE Replace(_, _, _, _)
\* s.replace(old, new, count) for a non-empty old; count < 0 replaces all
Replace(s, old, new, count) ==
    IF count = 0 \/ Len(s) < Len(old) THEN s
    ELSE IF StartsWith(s, old)
         THEN new \o Replace(SubSeq(s, Len(old) + 1, Len(s)), old, new, count - 1)
         ELSE <<Head(s)>> \o Replace(Tail(s), old, new, count)

Max(a, b) == IF a >= b THEN a ELSE b

(* ------------------------------ the nodes ------------------------------ *)

None == 0

ContainerClasses == {"TreeContainer", "RectangleContainer"}

\* hasattr(component, 'children')
HasChildren(h, n) == h[n].cls \in ContainerClasses

Node(cls, name, icon) == [cls |-> cls, name |-> name, icon |-> icon, children |-> <<>>]

\* f"{icon} {name}"
Label(h, n) == h[n].icon \o <<" ">> \o h[n].name

create_container(style_factory, name, icon) ==
    Node(IF style_factory = "tree" THEN "TreeContainer" ELSE "RectangleContainer", name, icon)

create_leaf(style_factory, name, icon) ==
    Node(IF style_factory = "tree" THEN "TreeLeaf" ELSE "RectangleLeaf", name, icon)

\* add_child putting the child in front of its siblings
add_child_front(h, n, child) ==
    [h EXCEPT ![n].children = <<child>> \o @]

add_child(h, n, child) ==
    [h EXCEPT ![n].children = Append(@, child)]

(* ----------------------------- the builder ----------------------------- *)

RECURSIVE build_tree(_, _, _)
RECURSIVE build_items(_, _, _, _)

\* b is the builder: its root and the objects made so far.  The result is
\* the builder afterwards and the node returned.
build_tree(b, value, name) ==
    IF value.type = "dict"
    THEN LET node == Len(b.heap) + 1
             made == [root |-> IF b.root = None THEN node ELSE b.root,
                      heap |-> Append(b.heap,
                                  create_container(b.style_factory, name,
                                                   b.icon_family.container_icon)),
                      style_factory |-> b.style_factory,
                      icon_family |-> b.icon_family]
         IN  [b |-> build_items(made, node, value.items, 1), node |-> node]
    ELSE [b |-> [b EXCEPT !.heap =
                    Append(@, create_leaf(b.style_factory,
                                 name \o (IF value.type # "null"
                                          THEN <<":", " ">> \o Str(value)
                                          ELSE <<>>),
                                 b.icon_family.leaf_icon))],
          node |-> Len(b.heap) + 1]

\* for key, value in data.items(): node.add_child(self.build_tree(value, key))
build_items(b, node, items, i) ==
    IF i > Len(items) THEN b
    ELSE LET r == build_tree(b, items[i].value, items[i].key)
         IN  build_items([r.b EXCEPT !.heap = add_child(@, node, r.node)],
                         node, items, i + 1)

TreeBuilder(style_factory, family) ==
    [root |-> None, heap |-> <<>>, style_factory |-> style_factory, icon_family |-> family]

(* ------------------------------ drawing -------------------------------- *)

\* A drawing call runs on the objects d.heap, writes lines to d.out with
\* print, and stops at the first exception, named in d.err.
Drawing(h) == [heap |-> h, out |-> <<>>, err |-> "none"]

print(d, line) == [d EXCEPT !.out = Append(@, line)]

raise(d, exception) == [d EXCEPT !.err = exception]

RootIndent == <<"r">>

TreePrefix(indent, is_last) ==
    indent \o (IF is_last THEN <<"UR", "H">> ELSE <<"VR", "H">>)

\* the child indent with the two cases exchanged
TreeChildIndent_swapped(indent, is_last) ==
    indent \o (IF is_last THEN <<"V", " ", " ", " ">> ELSE <<" ", " ", " ", " ">>)

TreeChildIndent(indent, is_last) ==
    indent \o (IF is_last THEN <<" ", " ", " ", " ">> ELSE <<"V", " ", " ", " ">>)

TreeLeaf_draw(d, n, indent, is_last) ==
    print(d, TreePrefix(indent, is_last) \o Label(d.heap, n))

RECURSIVE TreeContainer_draw(_, _, _, _)
RECURSIVE Tree_draw_children(_, _, _, _)

\* child.draw(indent, is_last) on a node of the tree style
Tree_draw(d, n, indent, is_last) ==
    IF d.heap[n].cls = "TreeContainer"
    THEN TreeContainer_draw(d, n, indent, is_last)
    ELSE TreeLeaf_draw(d, n, indent, is_last)

\* for i, child in enumerate(self.children): child.draw(new_indent, i == len - 1)
Tree_draw_children(d, n, i, new_indent) ==
    IF i > Len(d.heap[n].children) THEN d
    ELSE Tree_draw_children(
            Tree_draw(d, d.heap[n].children[i], new_indent,
                      i = Len(d.heap[n].children)),
            n, i + 1, new_indent)

\* TreeContainer.draw without the case of the root: the root is printed too
TreeContainer_draw_root_printed(d, n, indent, is_last) ==
    Tree_draw_children(
        print(d, TreePrefix(indent, is_last) \o Label(d.heap, n)),
        n, 1, TreeChildIndent(indent, is_last))

TreeContainer_draw(d, n, indent, is_last) ==
    IF indent = RootIndent
    THEN Tree_draw_children(d, n, 1, <<>>)
    ELSE Tree_draw_children(
            print(d, TreePrefix(indent, is_last) \o Label(d.heap, n)),
            n, 1, TreeChildIndent(indent, is_last))

RECURSIVE max_length(_, _, _)
RECURSIVE max_children_length(_, _, _, _)

\* max((child.max_length(indent_length) for child in self.children), default=0)
max_children_length(h, n, i, indent_length) ==
    IF i > Len(h[n].children) THEN 0
    ELSE Max(max_length(h, h[n].children[i], indent_length),
             max_children_length(h, n, i + 1, indent_length))

\* RectangleContainer.max_length and RectangleLeaf.max_length
max_length(h, n, indent_length) ==
    IF h[n].cls = "RectangleContainer"
    THEN Max(indent_length + Len(Label(h, n)),
             max_children_length(h, n, 1, indent_length + 3))
    ELSE indent_length + Len(Label(h, n))

BoxIndent == <<"V", " ", " ", " ">>

RectangleLeaf_draw(d, n, indent, is_last, maxlen) ==
    LET line_length == maxlen - Len(indent \o Label(d.heap, n))
        closing == Replace(Replace(indent, BoxIndent, <<"UR", "H", "H", "H">>, 1),
                           BoxIndent, <<"UH", "H", "H", "H">>, -1)
        prefix == IF is_last
                  THEN closing \o (IF Len(closing) = 0 THEN <<"UR", "H">>
                                                       ELSE <<"UH", "H">>)
                  ELSE indent \o <<"VR", "H">>
        postfix == Repeat("H", line_length)
                     \o (IF is_last THEN <<"H", "UL">> ELSE <<"H", "VL">>)
    IN  print(d, prefix \o Label(d.heap, n) \o postfix)

RECURSIVE RectangleContainer_draw(_, _, _, _, _)
RECURSIVE Rectangle_draw_children(_, _, _, _, _, _)

\* child.draw(indent, is_last, max_length) on a node of the rectangle style
Rectangle_draw(d, n, indent, is_last, maxlen) ==
    IF d.heap[n].cls = "RectangleContainer"
    THEN RectangleContainer_draw(d, n, indent, is_last, maxlen)
    ELSE RectangleLeaf_draw(d, n, indent, is_last, maxlen)

\* for i, child in enumerate(c.children):
\*     child.draw(new_indent, i == len(c.children) - 1 and is_last, max_length)
Rectangle_draw_children(d, c, i, new_indent, is_last, maxlen) ==
    IF d.err # "none" \/ i > Len(d.heap[c].children) THEN d
    ELSE Rectangle_draw_children(
            Rectangle_draw(d, d.heap[c].children[i], new_indent,
                           i = Len(d.heap[c].children) /\ is_last, maxlen),
            c, i + 1, new_indent, is_last, maxlen)

\* self.children.pop(0)
pop_first(d, n) == [d EXCEPT !.heap[n].children = Tail(@)]

RectangleContainer_draw(d, n, indent, is_last, maxlen) ==
    IF indent = RootIndent
    THEN LET first_is_last == Len(d.heap[n].children) = 1
             measured == max_length(d.heap, n, 0)
         IN  IF d.heap[n].children = <<>> THEN raise(d, "IndexError")
             ELSE LET first == d.heap[n].children[1]
                      line_length == measured - Len(Label(d.heap, first))
                      opened == print(d, <<"DR", "H">> \o Label(d.heap, first)
                                          \o Repeat("H", line_length) \o <<"H", "DL">>)
                  IN  IF ~HasChildren(d.heap, first) THEN raise(opened, "AttributeError")
                      ELSE Rectangle_draw_children(
                              pop_first(Rectangle_draw_children(opened, first, 1, BoxIndent,
                                                                first_is_last, measured), n),
                              n, 1, BoxIndent, TRUE, measured)
    ELSE LET line_length == maxlen - Len(indent \o Label(d.heap, n))
         IN  Rectangle_draw_children(
                print(d, indent \o <<"VR", "H">> \o Label(d.heap, n)
                         \o Repeat("H", line_length) \o <<"H", "VL">>),
                n, 1, indent \o BoxIndent, is_last, maxlen)

\* Container.accept -> DrawVisitor.visit_container -> container.draw(indent, is_last)
visit_container(d, n, indent, is_last) ==
    IF d.heap[n].cls = "TreeContainer"
    THEN TreeContainer_draw(d, n, indent, is_last)
    ELSE RectangleContainer_draw(d, n, indent, is_last, 0)

(* ----------------------------- iterators ------------------------------- *)

RECURSIVE reversed(_)
reversed(s) == IF s = <<>> THEN <<>> ELSE reversed(Tail(s)) \o <<Head(s)>>

NoIterator == [kind |-> "none", stack |-> <<>>, src |-> None]

\* Container.create_iterator, and Component.create_iterator for a Leaf
create_iterator(h, n) ==
    IF HasChildren(h, n)
    THEN [kind |-> "CompositeIterator", stack |-> reversed(h[n].children), src |-> n]
    ELSE [kind |-> "NoneIterator", stack |-> <<>>, src |-> n]

\* has_next comparing the stack's length with one
has_next_off_by_one(i) == i.kind = "CompositeIterator" /\ Len(i.stack) > 1

has_next(i) == i.kind = "CompositeIterator" /\ Len(i.stack) > 0

\* next() pushing the children in their own order
next_stack_unreversed(h, stack) ==
    LET component == stack[Len(stack)]
        popped == SubSeq(stack, 1, Len(stack) - 1)
    IN  IF HasChildren(h, component)
        THEN popped \o h[component].children
        ELSE popped

\* the stack after next(): pop the top, push its children in reverse
next_stack(h, stack) ==
    LET component == stack[Len(stack)]
        popped == SubSeq(stack, 1, Len(stack) - 1)
    IN  IF HasChildren(h, component)
        THEN popped \o reversed(h[component].children)
        ELSE popped

\* the iterator after next() and the value next() returns
next(h, i) ==
    IF has_next(i)
    THEN [it |-> [i EXCEPT !.stack = next_stack(h, i.stack)],
          result |-> i.stack[Len(i.stack)]]
    ELSE [it |-> i, result |-> None]

(* ------------------------------ the model ------------------------------ *)

RECURSIVE Descendants(_, _)
\* the nodes below n: its children and their descendants
Descendants(h, n) ==
    IF ~HasChildren(h, n) THEN {}
    ELSE UNION {{h[n].children[i]} \cup Descendants(h, h[n].children[i]) :
                    i \in 1..Len(h[n].children)}

Init ==
    /\ data \in JsonValues
    /\ style \in Styles
    /\ icon_family \in IconFamilies
    /\ pc = "start"
    /\ root = None
    /\ heap = <<>>
    /\ output = <<>>
    /\ it = NoIterator
    /\ results = <<>>

\* FunnyJsonExplorer.show: self.builder.build_tree(self.data); get_result()
BuildTree ==
    /\ pc = "start"
    /\ LET r == build_tree(TreeBuilder(style, icon_family), data, <<"r", "o", "o", "t">>)
       IN  /\ root' = r.b.root
           /\ heap' = r.b.heap
    /\ pc' = "built"
    /\ UNCHANGED <<data, style, icon_family, output, it, results>>

\* FunnyJsonExplorer.show: root.accept(draw_visitor); the visitor draws the
\* root and then makes an iterator of it.
Accept ==
    /\ pc = "built"
    /\ IF root = None
       THEN /\ pc' = "error"
            /\ UNCHANGED <<heap, output, it>>
       ELSE LET d == visit_container(Drawing(heap), root, RootIndent, TRUE)
            IN  /\ heap' = d.heap
                /\ output' = d.out
                /\ pc' = IF d.err = "none" THEN "drawn" ELSE "error"
                /\ it' = IF d.err = "none" THEN create_iterator(d.heap, root) ELSE it
    /\ results' = <<>>
    /\ UNCHANGED <<data, style, icon_family, root>>

\* node.create_iterator() on any node of the rendered tree
CreateIterator ==
    /\ pc = "drawn"
    /\ \E n \in 1..Len(heap) :
          it' = create_iterator(heap, n)
    /\ results' = <<>>
    /\ UNCHANGED <<data, style, icon_family, pc, root, heap, output>>

\* iterator.next(); results lists what the calls have returned so far
CallNext ==
    /\ pc = "drawn"
    /\ it.kind # "none"
    /\ Len(results) < Cardinality(Descendants(heap, it.src)) + MaxExtraCalls
    /\ LET r == next(heap, it)
       IN  /\ it' = r.it
           /\ results' = Append(results, r.result)
    /\ UNCHANGED <<data, style, icon_family, pc, root, heap, output>>

Next == BuildTree \/ Accept \/ CreateIterator \/ CallNext

Spec == Init /\ [][Next]_vars

(* ------------------------ the tree, read directly ---------------------- *)

Children(h, n) == IF HasChildren(h, n) THEN h[n].children ELSE <<>>

RECURSIVE PreOrder(_, _)
RECURSIVE PreOrderFrom(_, _, _)

\* the descendants of n in depth-first pre-order
PreOrder(h, n) == PreOrderFrom(h, Children(h, n), 1)

PreOrderFrom(h, children, i) ==
    IF i > Len(children) THEN <<>>
    ELSE <<children[i]>> \o PreOrder(h, children[i]) \o PreOrderFrom(h, children, i + 1)

IsChildOf(h, c, p) == \E i \in 1..Len(Children(h, p)) : Children(h, p)[i] = c

Parent(h, n) == CHOOSE p \in 1..Len(h) : IsChildOf(h, n, p)

IsLastChild(h, n) ==
    LET siblings == Children(h, Parent(h, n)) IN siblings[Len(siblings)] = n

RECURSIVE TreeIndentOf(_, _)
\* the accumulated indent of a non-root node: one unit per ancestor below the root
TreeIndentOf(h, n) ==
    IF Parent(h, n) = root THEN <<>>
    ELSE TreeIndentOf(h, Parent(h, n))
            \o (IF IsLastChild(h, Parent(h, n)) THEN <<" ", " ", " ", " ">>
                                                ELSE <<"V", " ", " ", " ">>)

TreeLineOf(h, n) ==
    TreeIndentOf(h, n) \o (IF IsLastChild(h, n) THEN <<"UR", "H">> ELSE <<"VR", "H">>)
        \o h[n].icon \o <<" ">> \o h[n].name

RECURSIVE Built(_, _, _, _)
\* node n is the node of (name, value), with one child per item, in order
Built(h, n, value, name) ==
    IF value.type = "dict"
    THEN /\ h[n].cls \in ContainerClasses
         /\ h[n].name = name
         /\ Len(h[n].children) = Len(value.items)
         /\ \A i \in 1..Len(value.items) :
               Built(h, h[n].children[i], value.items[i].value, value.items[i].key)
    ELSE /\ h[n].cls \notin ContainerClasses
         /\ StartsWith(h[n].name, name)

Finished == pc \in {"drawn", "error"}

(* ------------------------------ the claims ----------------------------- *)

\* C1: every line of one rectangle-style render has the same length, the
\* root's max_length() measured by that render plus the border overhead of
\* four characters (two for each side of the box).
C1_AlignedWidth ==
    [][(pc = "built" /\ style = "rectangle" /\ root # None)
         => (\A i \in 1..Len(output') :
               Len(output'[i]) = max_length(heap, root, 0) + 4)]_vars

\* C2: rendering a built tree (the tree of a top-level mapping, empty or
\* not) raises no error, in either style, and emits a line for every node
\* other than the root.
C2_RenderingTotal ==
    root # None
      => /\ pc # "error"
         /\ pc = "drawn" => Len(output) = Len(heap) - 1

\* C3: a rectangle-style render of a tree with a non-root node starts with
\* the opener, closes its last line with the up-and-left corner, and ends
\* every row in between with the vertical-and-left tee.
C3_OpenerAndCloser ==
    (Finished /\ style = "rectangle" /\ Len(heap) >= 2)
      => /\ output # <<>>
         /\ StartsWith(output[1], <<"DR", "H">>)
         /\ EndsWith(output[1], <<"H", "DL">>)
         /\ EndsWith(output[Len(output)], <<"H", "UL">>)
         /\ \A i \in 2..(Len(output) - 1) : EndsWith(output[i], <<"H", "VL">>)

\* C4: after build_tree, get_result() is a Container named "root" for every
\* decoded JSON value, a top-level scalar or null included.
C4_RootIsContainer ==
    pc # "start"
      => /\ root # None
         /\ heap[root].cls \in ContainerClasses
         /\ heap[root].name = <<"r", "o", "o", "t">>

\* C5: once the tree is built no operation changes the children of any
\* Container.
C5_ChildrenFrozen ==
    [][(pc = "built" \/ pc = "drawn")
         => (\A n \in 1..Len(heap) : heap'[n].children = heap[n].children)]_vars

\* C6: a tree-style render emits as many lines as the tree has non-root
\* nodes.
C6_TreeLineCount ==
    (pc = "drawn" /\ style = "tree")
      => Len(output) = Cardinality(Descendants(heap, root))

C6_Witness ==
    /\ pc = "drawn" /\ style = "tree"
    /\ Len(output) >= 3
    /\ \E n \in 1..Len(heap) : n # root /\ Children(heap, n) # <<>>

\* C7: on an iterator of a node with K descendants exactly the first K
\* next() calls return a node, has_next() is true before each of them and
\* false from then on, and the later calls return None and leave the
\* iterator as it is; the iterator of a Leaf has K = 0.
C7_IteratorExhaustion ==
    it.kind # "none"
      => LET K == Cardinality(Descendants(heap, it.src))
         IN  /\ \A i \in 1..Len(results) : (i <= K) <=> (results[i] # None)
             /\ has_next(it) <=> (Len(results) < K)
             /\ Len(results) >= K => it.stack = <<>>
             /\ ~HasChildren(heap, it.src) => K = 0 /\ it.kind = "NoneIterator"

C7_Witness ==
    /\ it.kind = "CompositeIterator"
    /\ Cardinality(Descendants(heap, it.src)) >= 2
    /\ Len(results) >= Cardinality(Descendants(heap, it.src)) + 2
    /\ results[Len(results)] = None

\* C8: build_tree gives every mapping, at every depth, a Container with one
\* child per key in the mapping's iteration order; the i-th child is a
\* Container named by the i-th key when its value is a mapping and a Leaf
\* whose name starts with the key otherwise.
C8_OrderPreserved ==
    (pc = "built" /\ data.type = "dict")
      => root # None /\ Built(heap, root, data, <<"r", "o", "o", "t">>)

C8_Witness ==
    /\ pc = "built" /\ root # None
    /\ Len(heap[root].children) = 2
    /\ \E n \in 1..Len(heap) : n # root /\ Len(heap[n].children) = 2

\* C9: the lines of a tree-style render are those of the non-root nodes in
\* depth-first pre-order, each being its ancestors' indent, the branch
\* glyph of its sibling position, the icon, a space and the name.
C9_TreeLines ==
    (pc = "drawn" /\ style = "tree")
      => LET order == PreOrder(heap, root)
         IN  /\ Len(output) = Len(order)
             /\ \A i \in 1..Len(order) : output[i] = TreeLineOf(heap, order[i])

C9_Witness ==
    /\ pc = "drawn" /\ style = "tree"
    /\ \E i \in 1..Len(output) :
          StartsWith(output[i], <<"V", " ", " ", " ", " ", " ", " ", " ", "UR">>)
    /\ \E i \in 1..Len(output) : StartsWith(output[i], <<"VR", "H", "#">>)

\* C10: the nodes returned by next() are the descendants of the iterated
\* Container in depth-first pre-order, each returned once.
C10_IteratorPreOrder ==
    it.kind # "none"
      => LET order == PreOrder(heap, it.src)
             k == IF Len(results) < Len(order) THEN Len(results) ELSE Len(order)
         IN  /\ SubSeq(results, 1, k) = SubSeq(order, 1, k)
             /\ it.stack = <<>> => Len(results) >= Len(order)
             /\ \A i, j \in 1..Len(results) :
                   (i < j /\ results[i] # None) => results[i] # results[j]

C10_Witness ==
    /\ it.kind = "CompositeIterator" /\ it.stack = <<>>
    /\ \E i, j, k \in 1..Len(results) :
          /\ i < j /\ j < k
          /\ IsChildOf(heap, results[j], results[i])
          /\ IsChildOf(heap, results[k], it.src)

====
